---- MODULE Spec2Model ----
(***************************************************************************)
(* Model of mtgss_manager.py: the command line entry point main() and the  *)
(* phase sequence of run_commands().  The helpers of mtgcdb.manager_helper *)
(* (read_mtgjson, read_xlsx, read_csv, write_xlsx, write_csv) are not part *)
(* of the source file; they are modelled from their contracts in the       *)
(* design document (sections 4.1 - 4.4).                                   *)
(***************************************************************************)
EXTENDS Integers, Sequences, FiniteSets, TLC

\* ---------------------------------------------------------------- bounds
NumPrintings == 2
MaxQty == 1
\* invocations of the program in a row
MaxRuns == 2

Printings == 1..NumPrintings
\* printings that belong to online-only product lines
OnlineOnly == {1}
Quantities == 0..MaxQty

\* ------------------------------------------------------- command surface
\* cmd_subparser.add_parser('create' | 'update' | 'export' | 'import')
Commands == {"create", "update", "export", "import"}

\* --format has choices=['csv'] and default 'csv'; only the export and
\* import sub-commands define it
Formats(command) == IF command \in {"export", "import"} THEN {"csv"} ELSE {"none"}

\* ------------------------------------------------------------ file model
EmptyRows == [p \in {} |-> 0]
Absent == [exists |-> FALSE, rows |-> EmptyRows]
File(rows) == [exists |-> TRUE, rows |-> rows]

\* every sheet of rows: one quantity per listed printing
RowSets == UNION {[S -> Quantities] : S \in SUBSET Printings}
Files == {Absent} \cup {File(r) : r \in RowSets}

\* the sheets that list their printings at MaxQty each
SmallFiles == {Absent} \cup {File([p \in S |-> MaxQty]) : S \in SUBSET Printings}

\* the spreadsheet the program finds; an import is handed the delimited file
\* as its collection data, and finds one of the smaller family of sheets
Spreadsheets(c) == IF c = "import" THEN SmallFiles ELSE Files

\* import_file is an argument of the import sub-command only, export_file of
\* the export sub-command only; the other commands name no such file
ImportFiles(c) == IF c = "import" THEN Files ELSE {Absent}
ExportFiles(c) == IF c = "export" THEN {Absent, File(EmptyRows)} ELSE {Absent}

\* restrictions of a row function to a subset of its rows
SubRows(rows) == {[p \in S |-> rows[p]] : S \in SUBSET (DOMAIN rows)}

\* catalog sources: unusable, or the printings 1..k it describes
Catalogs == {[valid |-> FALSE, printings |-> {}]}
              \cup {[valid |-> TRUE, printings |-> 1..k] : k \in 0..NumPrintings}

\* ----------------------------------------------------------- store model
EmptyStore == [cards |-> {}, counts |-> EmptyRows]

\* no invocation came before the first one
NoPrev ==
  [command |-> "none", include_online_only |-> FALSE, ok |-> FALSE,
   catalog |-> [valid |-> FALSE, printings |-> {}], held |-> FALSE]

\* ------------------------------------------------- manager_helper (4.1-4.4)
\* 4.1: the printings the catalog loader creates
read_mtgjson(src, include_online_only) ==
  IF include_online_only THEN src.printings ELSE src.printings \ OnlineOnly

\* 4.2 / 4.3: a file can be read when it exists and every row resolves against
\* the loaded catalog
Resolves(cards, file) == file.exists /\ DOMAIN file.rows \subseteq cards

\* 4.4: a newly read snapshot replaces the entries sharing its identities
Merge(old, new) ==
  [p \in DOMAIN old \cup DOMAIN new |-> IF p \in DOMAIN new THEN new[p] ELSE old[p]]

read_xlsx(store, file) == [store EXCEPT !.counts = Merge(store.counts, file.rows)]

read_csv(store, file) == [store EXCEPT !.counts = Merge(store.counts, file.rows)]

\* 4.2 / 4.3 write: one row per printing, zero where nothing is recorded
Serialize(store) ==
  File([p \in store.cards |->
          IF p \in DOMAIN store.counts THEN store.counts[p] ELSE 0])

write_xlsx(store) == Serialize(store)

write_csv(store) == Serialize(store)

\* ------------------------------------------------------------------ state
VARIABLES
  pc,                  \* position of the program
  command,             \* args.command
  format,              \* args.format
  include_online_only, \* args.include_online_only
  debug_stats,         \* args.debug_stats
  data_path,           \* what args.data_path names: "missing", "dir", "file"
  data_path0,          \* what it named when the program started
  catalog,             \* catalog source behind data_path
  spreadsheet_file,    \* content of args.spreadsheet_file
  import_file,         \* content of args.import_file
  export_file,         \* content of args.export_file
  spreadsheet0,        \* content of args.spreadsheet_file at program start
  import0,             \* content of args.import_file at program start
  export0,             \* content of args.export_file at program start
  session,             \* "none", "open", "closed"
  db,                  \* committed content of the sqlite:// store
  sess,                \* the session's view: committed plus uncommitted work
  profiler,            \* "none", "running", "finished"
  failed,              \* the call that raised, "none" when nothing raised
  log,                 \* calls made so far in this invocation, in order
  run,                 \* number of this invocation of the program
  prev                 \* summary of the invocation before this one

args == <<command, format, include_online_only, debug_stats>>
disk == <<data_path, catalog, spreadsheet_file, import_file, export_file>>
start == <<data_path0, spreadsheet0, import0, export0, run, prev>>
vars == <<pc, args, disk, start, session, db, sess, profiler, failed, log>>

Init ==
  /\ pc = "main"
  /\ command \in Commands
  /\ format \in Formats(command)
  /\ include_online_only \in BOOLEAN
  /\ debug_stats \in BOOLEAN
  /\ data_path \in {"missing", "dir", "file"}
  /\ data_path0 = data_path
  /\ catalog \in Catalogs
  /\ spreadsheet_file \in Spreadsheets(command)
  /\ import_file \in ImportFiles(command)
  /\ export_file \in ExportFiles(command)
  /\ spreadsheet0 = spreadsheet_file
  /\ import0 = import_file
  /\ export0 = export_file
  /\ session = "none"
  /\ db = EmptyStore
  /\ sess = EmptyStore
  /\ profiler = "none"
  /\ failed = "none"
  /\ log = <<>>
  /\ run = 1
  /\ prev = NoPrev

\* Then with the commit after the catalog load left out
ThenSkipFirstCommit(p) ==
  CASE p = "open" -> "load"
    [] p = "load" -> "readx"
    [] p = "commit1" -> "readx"
    [] p = "readx" -> "commit2"
    [] p = "commit2" -> "readc"
    [] p = "readc" -> "commit3"
    [] p = "commit3" -> "writex"
    [] p = "writex" -> "writec"
    [] p = "writec" -> "close"

\* Then with the catalog load left out of the sequence
ThenSkipLoad(p) ==
  CASE p = "open" -> "readx"
    [] p = "load" -> "commit1"
    [] p = "commit1" -> "readx"
    [] p = "readx" -> "commit2"
    [] p = "commit2" -> "readc"
    [] p = "readc" -> "commit3"
    [] p = "commit3" -> "writex"
    [] p = "writex" -> "writec"
    [] p = "writec" -> "close"

\* the statement that follows each statement of the try block of run_commands
\* when it returns normally
Then(p) ==
  CASE p = "open" -> "load"
    [] p = "load" -> "commit1"
    [] p = "commit1" -> "readx"
    [] p = "readx" -> "commit2"
    [] p = "commit2" -> "readc"
    [] p = "readc" -> "commit3"
    [] p = "commit3" -> "writex"
    [] p = "writex" -> "writec"
    [] p = "writec" -> "close"

\* Raise with the failed statement tried again
RaiseAndRetry(call) ==
  /\ failed' = call
  /\ pc' = pc

\* Raise without the finally clause: the exception leaves run_commands at once
RaiseNoFinally(call) ==
  /\ failed' = call
  /\ pc' = "finally"

\* Raise with the exception swallowed: the run goes on to the target write
RaiseAndGoOn(call) ==
  /\ failed' = call
  /\ pc' = "writex"

\* an exception raised by a call inside the try block of run_commands: control
\* passes to the finally clause
Raise(call) ==
  /\ failed' = call
  /\ pc' = "close"

Call(name) == log' = Append(log, name)

\* ------------------------------------------------------------------ main
\* Bootstrap without the check that an existing data path is a folder
BootstrapNoFolderCheck(path) ==
  CASE path = "missing" -> "makedirs"
    [] path = "dir" -> "proceed"
    [] path = "file" -> "proceed"

\* Bootstrap with a missing data path treated as an error
BootstrapMissingRaises(path) ==
  CASE path = "missing" -> "raise"
    [] path = "dir" -> "proceed"
    [] path = "file" -> "raise"

\* lines 104-108: what main does with the data path
Bootstrap(path) ==
  CASE path = "missing" -> "makedirs"
    [] path = "dir" -> "proceed"
    [] path = "file" -> "raise"

\* main(), lines 102-112: bootstrap the data path, start the profiler
MainMakedirs ==
  /\ pc = "main"
  /\ Bootstrap(data_path) = "makedirs"
  /\ Call("makedirs")
  /\ \E ok \in BOOLEAN :
       IF ok
         THEN /\ data_path' = "dir"
              /\ profiler' = IF debug_stats THEN "running" ELSE "none"
              /\ pc' = "open"
              /\ UNCHANGED failed
         ELSE /\ failed' = "makedirs"
              /\ pc' = "done"
              /\ UNCHANGED <<data_path, profiler>>
  /\ UNCHANGED <<args, catalog, spreadsheet_file, import_file, export_file,
                 start, session, db, sess>>

MainNotFolder ==
  /\ pc = "main"
  /\ Bootstrap(data_path) = "raise"
  /\ failed' = "data_path"
  /\ pc' = "done"
  /\ UNCHANGED <<args, disk, start, session, db, sess,
                 profiler, log>>

MainFolder ==
  /\ pc = "main"
  /\ Bootstrap(data_path) = "proceed"
  /\ profiler' = IF debug_stats THEN "running" ELSE "none"
  /\ pc' = "open"
  /\ UNCHANGED <<args, disk, start, session, db, sess,
                 failed, log>>

\* ---------------------------------------------------------- run_commands
\* create_engine with a store that outlives the invocation
create_engine_on_disk(left) == left

\* line 73, sqla.create_engine('sqlite://'): an in-memory store, empty whatever
\* an earlier invocation left behind
create_engine(left) == EmptyStore

\* lines 73-75: a fresh in-memory engine and one session on it
OpenSession ==
  /\ pc = "open"
  /\ session' = "open"
  /\ db' = create_engine(db)
  /\ sess' = db'
  /\ Call("session")
  /\ pc' = Then("open")
  /\ UNCHANGED <<args, disk, start, profiler, failed>>

\* lines 77-78
ReadMtgjson ==
  /\ pc = "load"
  /\ Call("read_mtgjson")
  /\ \/ /\ catalog.valid
        /\ sess' = [sess EXCEPT !.cards = read_mtgjson(catalog, include_online_only)]
        /\ pc' = Then("load")
        /\ UNCHANGED failed
     \/ /\ \E part \in SUBSET read_mtgjson(catalog, include_online_only) :
             sess' = [sess EXCEPT !.cards = part]
        /\ Raise("read_mtgjson")
  /\ UNCHANGED <<args, disk, start, session, db, profiler>>

\* session.commit(), lines 79, 83 and 88
Commit(at) ==
  /\ pc = at
  /\ Call("commit")
  /\ \/ /\ db' = sess
        /\ pc' = Then(at)
        /\ UNCHANGED failed
     \/ /\ Raise(at)
        /\ UNCHANGED db
  /\ UNCHANGED <<args, disk, start, session, sess, profiler>>

Commit1 == Commit("commit1")
Commit2 == Commit("commit2")
Commit3 == Commit("commit3")

\* ReadsXlsx with the export command left out
ReadsXlsxOnlyUpdate(c) == c \in {"update"}

\* ReadsXlsx with the prior spreadsheet also loaded for import
ReadsXlsxAlsoImport(c) == c \in {"update", "export", "import"}

\* ReadsXlsx with the prior spreadsheet also loaded for create
ReadsXlsxAlsoCreate(c) == c \in {"create", "update", "export"}

\* line 81
ReadsXlsx(c) == c \in {"update", "export"}

\* lines 81-82
ReadXlsx ==
  /\ pc = "readx"
  /\ IF ReadsXlsx(command)
       THEN /\ Call("read_xlsx")
            /\ \/ /\ Resolves(sess.cards, spreadsheet_file)
                  /\ sess' = read_xlsx(sess, spreadsheet_file)
                  /\ pc' = Then("readx")
                  /\ UNCHANGED failed
               \/ /\ \E part \in SubRows(spreadsheet_file.rows) :
                       /\ DOMAIN part \subseteq sess.cards
                       /\ sess' = [sess EXCEPT !.counts = Merge(sess.counts, part)]
                  /\ Raise("read_xlsx")
       ELSE /\ pc' = Then("readx")
            /\ UNCHANGED <<sess, failed, log>>
  /\ UNCHANGED <<args, disk, start, session, db, profiler>>

\* line 85
ReadsCsv(c) == c \in {"import"}

\* lines 85-87
ReadCsv ==
  /\ pc = "readc"
  /\ IF ReadsCsv(command) /\ format = "csv"
       THEN /\ Call("read_csv")
            /\ \/ /\ Resolves(sess.cards, import_file)
                  /\ sess' = read_csv(sess, import_file)
                  /\ pc' = Then("readc")
                  /\ UNCHANGED failed
               \/ /\ \E part \in SubRows(import_file.rows) :
                       /\ DOMAIN part \subseteq sess.cards
                       /\ sess' = [sess EXCEPT !.counts = Merge(sess.counts, part)]
                  /\ Raise("read_csv")
       ELSE /\ pc' = Then("readc")
            /\ UNCHANGED <<sess, failed, log>>
  /\ UNCHANGED <<args, disk, start, session, db, profiler>>

\* WritesXlsx with the spreadsheet written whatever the command
WritesXlsxAlways(c) == c \in {"create", "update", "export", "import"}

\* WritesXlsx with the spreadsheet also written for export
WritesXlsxAlsoExport(c) == c \in {"create", "update", "export"}

\* line 90
WritesXlsx(c) == c \in {"create", "update"}

\* lines 90-91
WriteXlsx ==
  /\ pc = "writex"
  /\ IF WritesXlsx(command)
       THEN /\ Call("write_xlsx")
            /\ \/ /\ spreadsheet_file' = write_xlsx(sess)
                  /\ pc' = Then("writex")
                  /\ UNCHANGED failed
               \/ /\ Raise("write_xlsx")
                  /\ UNCHANGED spreadsheet_file
       ELSE /\ pc' = Then("writex")
            /\ UNCHANGED <<spreadsheet_file, failed, log>>
  /\ UNCHANGED <<args, data_path, catalog, import_file, export_file,
                 start, session, db, sess, profiler>>

\* line 93
WritesCsv(c) == c \in {"export"}

\* lines 93-95
WriteCsv ==
  /\ pc = "writec"
  /\ IF WritesCsv(command) /\ format = "csv"
       THEN /\ Call("write_csv")
            /\ \/ /\ export_file' = write_csv(sess)
                  /\ pc' = Then("writec")
                  /\ UNCHANGED failed
               \/ /\ Raise("write_csv")
                  /\ UNCHANGED export_file
       ELSE /\ pc' = Then("writec")
            /\ UNCHANGED <<export_file, failed, log>>
  /\ UNCHANGED <<args, data_path, catalog, spreadsheet_file, import_file,
                 start, session, db, sess, profiler>>

\* CloseStore with the pending work committed on close
CloseStoreCommits(committed, view) == view

\* what session.close() leaves in the store: the committed content; the
\* session's uncommitted work is discarded
CloseStore(committed, view) == committed

\* lines 96-97: the finally clause of run_commands
CloseSession ==
  /\ pc = "close"
  /\ session' = "closed"
  /\ db' = CloseStore(db, sess)
  /\ sess' = db'
  /\ Call("close")
  /\ pc' = "finally"
  /\ UNCHANGED <<args, disk, start, profiler, failed>>

\* main(), lines 115-117: the finally clause around run_commands
MainFinally ==
  /\ pc = "finally"
  /\ profiler' = IF profiler = "running" THEN "finished" ELSE profiler
  /\ pc' = "done"
  /\ UNCHANGED <<args, disk, start, session, db, sess,
                 failed, log>>

Next ==
  \/ MainMakedirs
  \/ MainNotFolder
  \/ MainFolder
  \/ OpenSession
  \/ ReadMtgjson
  \/ Commit1
  \/ Commit2
  \/ Commit3
  \/ ReadXlsx
  \/ ReadCsv
  \/ WriteXlsx
  \/ WriteCsv
  \/ CloseSession
  \/ MainFinally

Spec == Init /\ [][Next]_vars

\* --------------------------------------------------- invocations in a row
InitRuns ==
  /\ Init
  /\ spreadsheet_file \in SmallFiles
  /\ import_file \in SmallFiles
  /\ ~debug_stats

\* the catalog source after a refresh that dropped its newest printing
Refreshed(c) ==
  IF c.valid /\ c.printings # {}
    THEN [c EXCEPT !.printings = 1..(Cardinality(c.printings) - 1)]
    ELSE c

\* the program has ended (lines 120-121) and is invoked again: another command
\* line, the spreadsheet as the invocation before left it; the catalog source
\* may have been refreshed in between, and an import names the file the
\* invocation before exported or imported
NewRun ==
  /\ pc = "done"
  /\ run < MaxRuns
  /\ run' = run + 1
  /\ prev' = [command |-> command,
              include_online_only |-> include_online_only,
              ok |-> (session = "closed" /\ failed = "none"),
              catalog |-> catalog,
              held |-> (\E p \in DOMAIN db.counts : db.counts[p] > 0)]
  /\ pc' = "main"
  /\ command' \in Commands
  /\ format' \in Formats(command')
  /\ include_online_only' \in BOOLEAN
  /\ catalog' \in {catalog, Refreshed(catalog)}
  /\ import_file' \in (IF command' = "import" THEN {import_file, export_file}
                                              ELSE {Absent})
  /\ export_file' \in (IF command' = "export" THEN {export_file} ELSE {Absent})
  /\ data_path0' = data_path
  /\ spreadsheet0' = spreadsheet_file
  /\ import0' = import_file'
  /\ export0' = export_file'
  /\ session' = "none"
  /\ profiler' = "none"
  /\ failed' = "none"
  /\ log' = <<>>
  /\ UNCHANGED <<debug_stats, data_path, spreadsheet_file, db, sess>>

NextRuns == Next \/ NewRun

SpecRuns == InitRuns /\ [][NextRuns]_vars

\* ================================================================ claims
IsCall(name, entry) == entry = name
Count(name) == Len(SelectSeq(log, LAMBDA entry : IsCall(name, entry)))
Called(name) == \E i \in DOMAIN log : log[i] = name

\* the catalog the loader yields for this run's arguments
Loaded == read_mtgjson(catalog, include_online_only)

\* the run went through run_commands to its end without an exception
Succeeded == pc = "done" /\ session = "closed" /\ failed = "none"

\* ---------------------------------------------------------------- C1
\* C1 (as stated): every import run in which the catalog load and the
\* delimited-file read succeed, and nothing else raises, ends with the
\* spreadsheet file rewritten from the imported data.
C1_ImportRewritesSpreadsheet ==
  (command = "import" /\ Succeeded) =>
     (Called("write_xlsx") /\ spreadsheet_file = write_xlsx(db))

\* ---------------------------------------------------------------- C3
ReadSideFailures ==
  {"read_mtgjson", "read_xlsx", "read_csv", "commit1", "commit2", "commit3"}

\* C3: when the catalog load, the spreadsheet read, the delimited-file read or
\* a commit fails, no target write is invoked in that run and the spreadsheet
\* and the export file keep the content they had when the program started.
C3_NoTargetWrittenAfterFailure ==
  failed \in ReadSideFailures =>
     /\ ~Called("write_xlsx")
     /\ ~Called("write_csv")
     /\ spreadsheet_file = spreadsheet0
     /\ export_file = export0

\* an update whose spreadsheet lists a printing the refreshed catalog lacks has
\* failed in read_xlsx and run to its end
C3_Witness ==
  /\ pc = "done"
  /\ command = "update"
  /\ failed = "read_xlsx"
  /\ catalog.valid
  /\ spreadsheet0.exists
  /\ ~(DOMAIN spreadsheet0.rows \subseteq Loaded)
  /\ \E p \in DOMAIN spreadsheet0.rows : spreadsheet0.rows[p] > 0

\* ---------------------------------------------------------------- C4
AdapterCalls == {"read_xlsx", "read_csv", "write_xlsx", "write_csv"}

\* C4: in every run of run_commands, whatever the command, the catalog load is
\* invoked exactly once, directly after the session is opened and before any
\* adapter read or write; when it fails no adapter read or write is invoked.
C4_CatalogLoadOnceAndFirst ==
  /\ Count("read_mtgjson") <= 1
  /\ (session # "none" /\ pc # "load" => Count("read_mtgjson") = 1)
  /\ \A i \in DOMAIN log :
       /\ (log[i] = "session" /\ i < Len(log) => log[i + 1] = "read_mtgjson")
       /\ (log[i] \in AdapterCalls => \E j \in 1..(i - 1) : log[j] = "read_mtgjson")
  /\ (failed = "read_mtgjson" => \A i \in DOMAIN log : log[i] \notin AdapterCalls)

C4_Witness ==
  /\ Succeeded
  /\ command = "update"
  /\ Count("read_mtgjson") = 1
  /\ Called("read_xlsx")
  /\ Called("write_xlsx")

\* ---------------------------------------------------------------- C5
\* the statement at lines 81-82, resp. 85-87, has been executed
PastReadXlsx == Count("commit") >= 2 \/ failed = "read_xlsx"
PastReadCsv == Count("commit") >= 3 \/ failed = "read_csv"

\* C5: the prior spreadsheet is read exactly when the command is update or
\* export, the delimited file exactly when it is import; create reads neither
\* and no run reads both.
C5_ReadsByOperation ==
  /\ (Called("read_xlsx") => command \in {"update", "export"})
  /\ (Called("read_csv") => command = "import")
  /\ (PastReadXlsx /\ command \in {"update", "export"} => Count("read_xlsx") = 1)
  /\ (PastReadCsv /\ command = "import" => Count("read_csv") = 1)
  /\ ~(Called("read_xlsx") /\ Called("read_csv"))
  /\ (command = "create" => ~Called("read_xlsx") /\ ~Called("read_csv"))

C5_Witness ==
  /\ Succeeded
  /\ command = "export"
  /\ Count("read_xlsx") = 1
  /\ ~Called("read_csv")
  /\ db.counts # EmptyRows

\* ---------------------------------------------------------------- C6
\* C6: a successful create or update has written the spreadsheet and nothing
\* else, a successful export the export file and nothing else; a target write
\* is followed by no call but the closing of the session, so by no commit.
C6_TargetByOperation ==
  /\ (Succeeded /\ command \in {"create", "update"} =>
        /\ Count("write_xlsx") = 1
        /\ ~Called("write_csv")
        /\ spreadsheet_file = write_xlsx(db)
        /\ export_file = export0)
  /\ (Succeeded /\ command = "export" =>
        /\ Count("write_csv") = 1
        /\ ~Called("write_xlsx")
        /\ export_file = write_csv(db)
        /\ spreadsheet_file = spreadsheet0)
  /\ \A i \in DOMAIN log :
       log[i] \in {"write_xlsx", "write_csv"} =>
          \A j \in (i + 1)..Len(log) : log[j] = "close"

C6_Witness ==
  /\ Succeeded
  /\ command = "export"
  /\ log[Len(log) - 1] = "write_csv"
  /\ export_file # export0
  /\ \E p \in DOMAIN export_file.rows : export_file.rows[p] > 0

\* ---------------------------------------------------------------- C7
\* C7 (as stated): when the data path is missing at program start the run
\* aborts with an error, no session is opened, no catalog load is attempted
\* and nothing is created or written.
C7_MissingDataPathAborts ==
  data_path0 = "missing" =>
     /\ session = "none"
     /\ ~Called("read_mtgjson")
     /\ data_path = "missing"
     /\ spreadsheet_file = spreadsheet0
     /\ export_file = export0
     /\ (pc = "done" => failed # "none")

\* C7 (amended): when the data path is missing at program start, main creates
\* it as a directory and then runs the phase sequence (a session is opened and
\* the catalog load is attempted); only when creating the directory fails does
\* the run abort before a session is opened, and up to the opening of the
\* session nothing but the data directory is created or written.
C7_MissingDataPathIsCreated ==
  data_path0 = "missing" =>
     /\ (pc # "main" => Len(log) >= 1 /\ log[1] = "makedirs")
     /\ (failed = "makedirs" =>
           session = "none" /\ data_path = "missing" /\ pc = "done" /\ Len(log) = 1)
     /\ (pc # "main" /\ failed # "makedirs" => data_path = "dir")
     /\ (pc = "done" /\ failed # "makedirs" =>
           session = "closed" /\ Called("read_mtgjson"))
     /\ (session = "none" =>
           spreadsheet_file = spreadsheet0 /\ export_file = export0
             /\ import_file = import0)

C7_Witness ==
  /\ data_path0 = "missing"
  /\ data_path = "dir"
  /\ Succeeded
  /\ Called("read_mtgjson")

\* ---------------------------------------------------------------- C8
\* commits that returned normally
CommitsDone ==
  Count("commit") - (IF failed \in {"commit1", "commit2", "commit3"} THEN 1 ELSE 0)

\* C8: the committed content of the store is at every moment exactly what the
\* commits that succeeded so far have committed: a later failure, and the
\* closing of the session after it, take nothing of it back, and nothing of the
\* phase that failed is added to it.
C8_CommittedWorkRetained ==
  /\ (CommitsDone = 0 => db = EmptyStore)
  /\ (CommitsDone >= 1 => db.cards = Loaded)
  /\ (CommitsDone = 1 => db.counts = EmptyRows)
  /\ (CommitsDone >= 2 /\ command \in {"update", "export"} =>
        db.counts = spreadsheet0.rows)
  /\ (CommitsDone = 2 /\ command = "import" => db.counts = EmptyRows)
  /\ (CommitsDone = 3 /\ command = "import" => db.counts = import_file.rows)
  /\ (command = "create" => db.counts = EmptyRows)

\* the delimited-file read of an import has failed after the catalog load was
\* committed, leaving uncommitted rows in the session
C8_Witness ==
  /\ pc = "close"
  /\ command = "import"
  /\ failed = "read_csv"
  /\ db.cards # {}
  /\ sess.counts # EmptyRows
  /\ db.counts = EmptyRows

\* ---------------------------------------------------------------- C9
\* both read statements have been passed and the session is still open
ReadsFinished == session = "open" /\ pc \in {"commit3", "writex", "writec"}

\* C9: in an import run the collection data in the store once the read phases
\* have finished is exactly the rows of the imported file: the prior
\* spreadsheet is never read, so a row it has and the imported file lacks is
\* not in the store.
C9_ImportHoldsOnlyImportedEntries ==
  (command = "import" /\ ReadsFinished) =>
     /\ ~Called("read_xlsx")
     /\ sess.counts = import_file.rows
     /\ \A p \in DOMAIN spreadsheet0.rows \ DOMAIN import_file.rows :
          p \notin DOMAIN sess.counts

C9_Witness ==
  /\ command = "import"
  /\ pc = "writex"
  /\ import_file.rows # EmptyRows
  /\ spreadsheet0.exists
  /\ DOMAIN spreadsheet0.rows \subseteq sess.cards
  /\ \E p \in DOMAIN spreadsheet0.rows :
       spreadsheet0.rows[p] > 0 /\ p \notin DOMAIN import_file.rows

\* ---------------------------------------------------------------- C10
\* C10: in a create run neither the spreadsheet nor a delimited file is read;
\* when the spreadsheet is written the store holds the loaded catalog and no
\* collection entry, and the written sheet has one row per loaded printing,
\* each with quantity zero.
C10_CreateWritesCatalogAtZero ==
  command = "create" =>
     /\ ~Called("read_xlsx")
     /\ ~Called("read_csv")
     /\ (pc = "writex" \/ Called("write_xlsx") =>
           sess.cards = Loaded /\ sess.counts = EmptyRows)
     /\ (Called("write_xlsx") /\ failed # "write_xlsx" =>
           spreadsheet_file = File([p \in Loaded |-> 0]))

C10_Witness ==
  /\ command = "create"
  /\ Succeeded
  /\ spreadsheet0.exists
  /\ DOMAIN spreadsheet0.rows \subseteq Loaded
  /\ \E p \in DOMAIN spreadsheet0.rows : spreadsheet0.rows[p] > 0
  /\ spreadsheet_file = File([p \in Loaded |-> 0])
  /\ Loaded # {}

\* ---------------------------------------------------------------- C11
\* C11: the store is empty when an invocation opens its session, whatever the
\* invocations before it held, and all an open or closed session ever holds
\* are printings of the catalog loaded in this invocation and collection rows
\* read in this invocation from the spreadsheet or the delimited file on disk.
C11_StoreIsEphemeral ==
  session # "none" =>
     /\ (pc = "load" => db = EmptyStore /\ sess = EmptyStore)
     /\ sess.cards \subseteq Loaded
     /\ db.cards \subseteq Loaded
     /\ \A p \in DOMAIN sess.counts \cup DOMAIN db.counts :
          LET held == IF p \in DOMAIN sess.counts THEN sess.counts[p] ELSE db.counts[p]
          IN  \/ /\ command \in {"update", "export"}
                 /\ p \in DOMAIN spreadsheet0.rows
                 /\ held = spreadsheet0.rows[p]
              \/ /\ command = "import"
                 /\ p \in DOMAIN import_file.rows
                 /\ held = import_file.rows[p]

\* a create that follows an invocation whose store held collection entries is
\* about to write, with a catalog and no entry in its store
C11_Witness ==
  /\ run >= 2
  /\ prev.held
  /\ command = "create"
  /\ session = "open"
  /\ pc = "writex"
  /\ sess.cards # {}
  /\ sess.counts = EmptyRows

\* ---------------------------------------------------------------- C12
\* this invocation repeats a successful update: same command line, catalog
\* source as it was, spreadsheet as the first update left it
SecondUpdate ==
  /\ run >= 2
  /\ prev.command = "update"
  /\ prev.ok
  /\ command = "update"
  /\ include_online_only = prev.include_online_only
  /\ catalog = prev.catalog

RunFailures == ReadSideFailures \cup {"write_xlsx", "write_csv"}

\* the entry of log made by the call that raised
CallOf(f) == IF f \in {"commit1", "commit2", "commit3"} THEN "commit" ELSE f

\* C13: each of the catalog load, the spreadsheet read, the delimited-file read
\* and the target write is invoked at most once in a run; the call that raised
\* is the last call of the run but for the closing of the session, so no
\* phase, no commit and no second try follows it, and the failure it raised is
\* the one the run ends with.
C13_FailureIsTerminal ==
  /\ \A n \in AdapterCalls \cup {"read_mtgjson"} : Count(n) <= 1
  /\ Count("write_xlsx") + Count("write_csv") <= 1
  /\ (failed # "none" => pc \in {"close", "finally", "done"})
  /\ (failed \in RunFailures /\ pc = "close" =>
        log[Len(log)] = CallOf(failed))
  /\ (failed \in RunFailures /\ pc \in {"finally", "done"} =>
        /\ Len(log) >= 2
        /\ log[Len(log)] = "close"
        /\ log[Len(log) - 1] = CallOf(failed))

C13_Witness ==
  /\ pc = "done"
  /\ command = "update"
  /\ failed = "read_xlsx"
  /\ Resolves(db.cards, spreadsheet0)
  /\ Count("read_xlsx") = 1
  /\ Count("commit") = 1

\* ---------------------------------------------------------------- C14
\* C14: the call that follows a read (catalog, spreadsheet, delimited file) is
\* a commit, or the closing of the session when the read raised, so a commit
\* lies between every read and the next adapter call; and when a read or a
\* target write is about to start nothing in the session is uncommitted.
C14_ReadsCommittedBeforeNextPhase ==
  /\ \A i \in DOMAIN log :
       (log[i] \in {"read_mtgjson", "read_xlsx", "read_csv"} /\ i < Len(log))
          => log[i + 1] \in {"commit", "close"}
  /\ \A j \in DOMAIN log :
       (log[j] \in AdapterCalls /\ j > 1) => log[j - 1] = "commit"
  /\ (pc \in {"readx", "readc", "writex", "writec"} => db = sess)
  /\ (pc \in {"readx", "readc", "writex", "writec"} => db.cards = Loaded)
  /\ (pc \in {"writex", "writec"} /\ command \in {"update", "export"} =>
        db.counts = spreadsheet0.rows)
  /\ (pc \in {"writex", "writec"} /\ command = "import" =>
        db.counts = import_file.rows)

C14_Witness ==
  /\ Succeeded
  /\ data_path0 = "dir"
  /\ command = "update"
  /\ db.counts # EmptyRows
  /\ log = <<"session", "read_mtgjson", "commit", "read_xlsx", "commit",
             "commit", "write_xlsx", "close">>

\* ---------------------------------------------------------------- C15
\* C15: a run opens at most one session and closes it exactly once, on the
\* path where everything succeeds and on every path where a phase or a commit
\* raises; the closing is the last call of run_commands.
C15_SessionClosedExactlyOnce ==
  /\ Count("session") <= 1
  /\ Count("close") <= 1
  /\ (session = "closed" <=> Count("close") = 1)
  /\ (session = "open" <=> (Called("session") /\ ~Called("close")))
  /\ (Called("session") /\ pc \in {"finally", "done"} => session = "closed")
  /\ (Called("close") => log[Len(log)] = "close")
  /\ (session = "open" => pc \notin {"main", "open", "finally", "done"})

C15_Witness ==
  /\ pc = "done"
  /\ failed = "commit2"
  /\ session = "closed"
  /\ Count("close") = 1

C17_DataPathChecked ==
  /\ (data_path0 = "file" =>
        /\ data_path = "file"
        /\ session = "none"
        /\ log = <<>>
        /\ pc \in {"main", "done"}
        /\ (pc = "done" => failed = "data_path")
        /\ spreadsheet_file = spreadsheet0
        /\ export_file = export0)
  /\ (data_path0 = "dir" =>
        /\ data_path = "dir"
        /\ ~Called("makedirs")
        /\ failed \notin {"data_path", "makedirs"}
        /\ (pc \notin {"main", "open"} => Called("session"))
        /\ (pc = "done" => session = "closed" /\ Called("read_mtgjson")))

C17_Witness ==
  /\ data_path0 = "file"
  /\ pc = "done"
  /\ failed = "data_path"
  /\ spreadsheet0.exists

====
